---- MODULE Spec2Model ----
(***************************************************************************)
(* Model of the LLM-backed structured-output extraction of                 *)
(* src/classify_genres.py: JsonPrompt (the conversation), LLMConnector.    *)
(* json_prompt (the extract / validate / retry protocol),                  *)
(* ClassifyGenreOutput.model_validate_json (schema and domain validation)  *)
(* and classify_genres (the batch loop).                                   *)
(*                                                                         *)
(* A text is a sequence of atoms.  The characters the code inspects        *)
(* (braces, backslash, ampersand, quotes, colon, comma, the letters of a   *)
(* genre label) are atoms of one character; a run of characters the code   *)
(* never looks into (a phrase of the prompt, the key of a JSON member) is  *)
(* one atom.                                                               *)
(***************************************************************************)
EXTENDS Integers, Sequences, FiniteSets, TLC

(***************************************************************************)
(* Bounds of the model.                                                    *)
(***************************************************************************)
\* longest all_genres list handed to classify_genres
MaxItems == 2
\* largest max_tries handed to json_prompt when it is called directly
MaxBudget == 3
\* backend calls explored when max_tries is negative (the budget never ends)
MaxNegCalls == 2
\* longest conversation built when the methods of JsonPrompt are called directly
MaxMsgs == 3
\* rows of table info: completed runs of sync_spotify_data_to_db that stored a hash
MaxSyncs == 3

(***************************************************************************)
(* Texts.                                                                  *)
(***************************************************************************)
Range(s) == {s[j] : j \in 1..Len(s)}

Last(s) == s[Len(s)]

\* F applied to the value of v, which is computed once
Let(v, F(_)) == CHOOSE y \in {F(x) : x \in {v}} : TRUE

\* Python's `sub in text` for str
Contains(text, sub) ==
    \E p \in 1..(Len(text) - Len(sub) + 1) : SubSeq(text, p, p + Len(sub) - 1) = sub

\* the upper-case letters of the model's alphabet and their lower-case forms
UpperToLower ==
    [R |-> "r", O |-> "o", C |-> "c", K |-> "k", J |-> "j", A |-> "a", Z |-> "z",
     P |-> "p", B |-> "b"]

\* str.lower(), letter by letter
lower(text) ==
    [j \in 1..Len(text) |->
        IF text[j] \in DOMAIN UpperToLower THEN UpperToLower[text[j]] ELSE text[j]]

rock == <<"r", "o", "c", "k">>
pop == <<"p", "o", "p">>
jazz == <<"j", "a", "z", "z">>
Rock == <<"R", "o", "c", "k">>
ROCK == <<"R", "O", "C", "K">>
JAZZ == <<"J", "A", "Z", "Z">>
rnb == <<"r", "&", "b">>

RECURSIVE ReprItems(_)
ReprItems(l) ==
    IF l = <<>> THEN <<>>
    ELSE <<"'">> \o Head(l) \o <<"'">>
         \o (IF Len(l) > 1 THEN <<", ">> ELSE <<>>) \o ReprItems(Tail(l))

\* Python's str() of a list of str, as an f-string interpolates it
repr_list(l) == <<"[">> \o ReprItems(l) \o <<"]">>

RECURSIVE DumpItems(_)
DumpItems(l) ==
    IF l = <<>> THEN <<>>
    ELSE <<"\n  ", "\"">> \o Head(l) \o <<"\"">>
         \o (IF Len(l) > 1 THEN <<",">> ELSE <<"\n">>) \o DumpItems(Tail(l))

\* json.dumps(l, indent=2) of a list of str
json_dumps(l) == <<"[">> \o DumpItems(l) \o <<"]">>

(***************************************************************************)
(* Messages and the conversation (JsonPrompt).                             *)
(***************************************************************************)
Message(role, content) == [role |-> role, content |-> content]

\* an add_msg that puts the message in the place of the last one
add_msg_replacing(conv, msg) ==
    IF conv = <<>> THEN <<msg>> ELSE Append(SubSeq(conv, 1, Len(conv) - 1), msg)

\* JsonPrompt.add_msg
add_msg(conv, msg) == Append(conv, msg)

\* JsonPrompt.pop_last, on a conversation that is not empty
pop_last(conv) == SubSeq(conv, 1, Len(conv) - 1)

\* a pop_add that forgets the pop
pop_add_keeping(conv, msg) == add_msg(conv, msg)

\* JsonPrompt.pop_add, on a conversation that is not empty
pop_add(conv, msg) == add_msg(pop_last(conv), msg)

\* ClassifyGenreOutput.fields(), as json.dumps prints it
fields == <<"{\"reason\": \"str\", \"fundamental_genre\": \"str\"}">>

\* a build_prompt that sends the stored messages alone
build_prompt_bare(conv) == conv

\* JsonPrompt.build_prompt: the system message, then the stored messages
build_prompt(conv) ==
    <<Message("system",
              <<"Do not output any markdown. Do not make any comments. Do not use escape characters.\n\nOutput nothing but a JSON in the following format: ">>
              \o fields)>> \o conv

(***************************************************************************)
(* Parsing a response (json_prompt, the try block).                        *)
(***************************************************************************)
RECURSIVE replace_amp(_)
\* resp.replace("\\&", "&"): every non-overlapping occurrence, left to right
replace_amp(text) ==
    IF text = <<>> THEN <<>>
    ELSE IF Len(text) >= 2 /\ text[1] = "\\" /\ text[2] = "&"
         THEN <<"&">> \o replace_amp(SubSeq(text, 3, Len(text)))
         ELSE <<text[1]>> \o replace_amp(Tail(text))

RECURSIVE normalize(_)
\* while "\\&" in resp: resp = resp.replace("\\&", "&")
\* a single pass of replace, without the while loop around it
normalize_once(text) == replace_amp(text)

normalize(text) ==
    IF Contains(text, <<"\\", "&">>) THEN normalize(replace_amp(text)) ELSE text

\* the least index >= from at which text holds atom c, 0 when there is none
IndexFrom(text, c, from) ==
    LET hits == {j \in from..Len(text) : text[j] = c}
    IN  IF hits = {} THEN 0 ELSE CHOOSE j \in hits : \A k \in hits : j <= k

\* re.search("{[^}]*}", resp): the leftmost match, as [found, span]
\* a search that runs on to the last closing brace
re_search_greedy(text) ==
    Let(IndexFrom(text, "{", 1), LAMBDA first :
      Let(IF first = 0 THEN 0
          ELSE IF \E j \in (first + 1)..Len(text) : text[j] = "}"
               THEN CHOOSE j \in (first + 1)..Len(text) :
                       text[j] = "}" /\ \A k \in (j + 1)..Len(text) : text[k] # "}"
               ELSE 0, LAMBDA close :
        IF close = 0 THEN [found |-> FALSE, span |-> <<>>]
        ELSE [found |-> TRUE, span |-> SubSeq(text, first, close)]))

re_search(text) ==
    Let(IndexFrom(text, "{", 1), LAMBDA first :
      Let(IF first = 0 THEN 0 ELSE IndexFrom(text, "}", first + 1), LAMBDA close :
        IF close = 0 THEN [found |-> FALSE, span |-> <<>>]
        ELSE [found |-> TRUE, span |-> SubSeq(text, first, close)]))

(***************************************************************************)
(* The JSON reader behind BaseModel.model_validate_json, for the texts of  *)
(* the model: an object of members "key": value, a value being a string or *)
(* the number 1; blanks between tokens; in a string a backslash escapes a  *)
(* quote or a backslash and is an error before anything else.              *)
(***************************************************************************)
RECURSIVE SkipWs(_, _)
SkipWs(s, p) == IF p <= Len(s) /\ s[p] = " " THEN SkipWs(s, p + 1) ELSE p

RECURSIVE StrEnd(_, _)
\* the index of the quote closing the string whose content starts at q, or 0
StrEnd(s, q) ==
    IF q > Len(s) THEN 0
    ELSE IF s[q] = "\"" THEN q
    ELSE IF s[q] = "\\"
         THEN IF q + 1 <= Len(s) /\ s[q + 1] \in {"\"", "\\"} THEN StrEnd(s, q + 2) ELSE 0
         ELSE StrEnd(s, q + 1)

RECURSIVE Unescape(_)
Unescape(t) ==
    IF t = <<>> THEN <<>>
    ELSE IF t[1] = "\\" THEN <<t[2]>> \o Unescape(SubSeq(t, 3, Len(t)))
    ELSE <<t[1]>> \o Unescape(Tail(t))

\* a JSON string at p: [ok, val, next]
ParseStr(s, p) ==
    Let(IF p <= Len(s) /\ s[p] = "\"" THEN StrEnd(s, p + 1) ELSE 0, LAMBDA e :
      IF e = 0 THEN [ok |-> FALSE, val |-> <<>>, next |-> 0]
      ELSE [ok |-> TRUE, val |-> Unescape(SubSeq(s, p + 1, e - 1)), next |-> e + 1])

\* a JSON value at p: a string, or the number 1
ParseValue(s, p) ==
    IF p <= Len(s) /\ s[p] = "1"
    THEN [ok |-> TRUE, str |-> FALSE, val |-> <<"1">>, next |-> p + 1]
    ELSE Let(ParseStr(s, p), LAMBDA r :
           [ok |-> r.ok, str |-> TRUE, val |-> r.val, next |-> r.next])

JsonError == [ok |-> FALSE, obj |-> <<>>]

RECURSIVE ParseMembers(_, _, _)
\* the members from p on, added to acc (a later member replaces an earlier
\* one of the same key); the object must end the text
ParseMembers(s, p, acc) ==
    Let(ParseStr(s, SkipWs(s, p)), LAMBDA k :
      IF ~k.ok THEN JsonError
      ELSE Let(SkipWs(s, k.next), LAMBDA c :
        IF c > Len(s) \/ s[c] # ":" THEN JsonError
        ELSE Let(ParseValue(s, SkipWs(s, c + 1)), LAMBDA v :
          IF ~v.ok THEN JsonError
          ELSE Let(SkipWs(s, v.next), LAMBDA e :
            Let(SelectSeq(acc, LAMBDA m : m.k # k.val)
                  \o <<[k |-> k.val, str |-> v.str, val |-> v.val]>>, LAMBDA acc2 :
              IF e > Len(s) THEN JsonError
              ELSE IF s[e] = "," THEN ParseMembers(s, e + 1, acc2)
              ELSE IF s[e] = "}" /\ e = Len(s) THEN [ok |-> TRUE, obj |-> acc2]
              ELSE JsonError)))))

\* a JSON object: [ok, obj], obj the sequence of its members
ParseObject(s) ==
    IF s = <<>> \/ s[1] # "{" THEN JsonError
    ELSE Let(SkipWs(s, 2), LAMBDA p :
           IF p = Len(s) /\ s[p] = "}" THEN [ok |-> TRUE, obj |-> <<>>]
           ELSE ParseMembers(s, 2, <<>>))

\* the text of a pydantic ValidationError (library text, not looked into)
ValidationErrorText == <<"validation error for ClassifyGenreOutput">>

\* BaseModel.model_validate_json for the fields reason: str and
\* fundamental_genre: str (both required, other members ignored)
super_model_validate_json(json_data) ==
    Let(ParseObject(json_data), LAMBDA o :
      LET has(key) == \E j \in 1..Len(o.obj) : o.obj[j].k = <<key>> /\ o.obj[j].str
          get(key) == (CHOOSE m \in Range(o.obj) : m.k = <<key>>).val
      IN  IF o.ok /\ has("reason") /\ has("fundamental_genre")
          THEN [ok |-> TRUE, reason |-> get("reason"),
                fundamental_genre |-> get("fundamental_genre"), error |-> <<>>]
          ELSE [ok |-> FALSE, reason |-> <<>>, fundamental_genre |-> <<>>,
                error |-> ValidationErrorText])

\* model_validate_json without line 185: the label is compared as it came
model_validate_json_unfolded(json_data, permitted) ==
    Let(super_model_validate_json(json_data), LAMBDA s :
      IF ~s.ok THEN s
      ELSE IF s.fundamental_genre \notin Range(permitted)
      THEN [ok |-> FALSE, reason |-> s.reason, fundamental_genre |-> s.fundamental_genre,
            error |-> <<"Invalid fundamental genre: ">> \o s.fundamental_genre
                      \o <<". Choose from ">> \o repr_list(permitted)]
      ELSE [ok |-> TRUE, reason |-> s.reason, fundamental_genre |-> s.fundamental_genre,
            error |-> <<>>])

\* ClassifyGenreOutput.model_validate_json, against cfg.fundamental_genres
model_validate_json(json_data, permitted) ==
    Let(super_model_validate_json(json_data), LAMBDA s :
      IF ~s.ok THEN s
      ELSE Let(lower(s.fundamental_genre), LAMBDA g :
        IF g \notin Range(permitted)
        THEN [ok |-> FALSE, reason |-> s.reason, fundamental_genre |-> g,
              error |-> <<"Invalid fundamental genre: ">> \o g
                        \o <<". Choose from ">> \o repr_list(permitted)]
        ELSE [ok |-> TRUE, reason |-> s.reason, fundamental_genre |-> g,
              error |-> <<>>]))

\* the try block of json_prompt on the raw response: normalise, search, validate
parse_response(resp, permitted) ==
    Let(re_search(normalize(resp)), LAMBDA m :
      IF ~m.found
      THEN [ok |-> FALSE, reason |-> <<>>, fundamental_genre |-> <<>>,
            error |-> <<"No JSON found in response.">>]
      ELSE model_validate_json(m.span, permitted))

\* the backquote character (the module's strings cannot hold it)
Backquote == "<backquote>"

\* a correction message that does not quote the error
correction_unquoted(error) ==
    Message("user", <<"That did not work. Please try again.">>)

\* the correction message of the except block
correction(error) ==
    Message("user", <<"That did not work. Here is the error I get: ", Backquote>> \o error
                    \o <<Backquote, ". Please try again.">>)

(***************************************************************************)
(* The inputs the model draws from.                                        *)
(***************************************************************************)
Str(t) == <<"\"">> \o t \o <<"\"">>

\* the text {"reason": "<why>", "fundamental_genre": "<label>"}
GenreJson(why, label) ==
    <<"{">> \o Str(<<"reason">>) \o <<":", " ">> \o Str(why) \o <<",", " ">>
    \o Str(<<"fundamental_genre">>) \o <<":", " ">> \o Str(label) \o <<"}">>

RespExample == <<"blah blah ">> \o GenreJson(<<"x">>, ROCK) \o <<" trailing">>
RespPop == GenreJson(<<"x">>, pop)
RespJAZZ == GenreJson(<<"x">>, JAZZ)
\* the members the other way round, the label capitalised
RespRock ==
    <<"{">> \o Str(<<"fundamental_genre">>) \o <<":">> \o Str(Rock) \o <<",">>
    \o Str(<<"reason">>) \o <<":">> \o Str(<<"y">>) \o <<"}">>
RespNoJson == <<"I think it is rock">>
\* both braces, but no opening brace before a closing one
RespBackwards == <<"}", " or ", "{">>
\* well-formed JSON that lacks the field reason
RespMissing == <<"{">> \o Str(<<"fundamental_genre">>) \o <<":">> \o Str(rock) \o <<"}">>
\* the label r\\&b: two passes of the replacement make it r&b
RespEscaped == GenreJson(<<"x">>, <<"r", "\\", "\\", "&", "b">>)
\* a closing brace inside the string reason
RespBraceInString == GenreJson(<<"{", "G", "}">>, rock)

\* what the backend may answer when json_prompt is called directly
\* escaped ampersands, three of them, in the reason
RespAmpersands == GenreJson(<<"\\", "&", "\\", "&", "text", "\\", "&">>, rock)

Responses ==
    {RespExample, RespPop, RespJAZZ, RespRock, RespNoJson, RespBackwards,
     RespMissing, RespEscaped, RespBraceInString, RespAmpersands}

\* cfg.fundamental_genres when json_prompt is called directly
CfgChoices == {<<rock, pop>>, <<Rock>>, <<rnb, jazz>>}

\* what the backend may answer to classify_genres, and the lists it is
\* run with: under each list one of the two answers is rejected, so the 20
\* tries of an item are explored without the histories multiplying
LoopResponses == {RespExample, RespJAZZ}
LoopGenreLists == {<<rock, pop>>, <<jazz>>}

\* the sub-genres to classify
Items == {<<"shoegaze">>, <<"bebop">>}
ItemLists == UNION {[1..n -> Items] : n \in 0..MaxItems}

\* max_tries of json_prompt when the caller gives none
DefaultMaxTries == 20

\* None, and the values of output and of the entries of classifed
None == [tag |-> "None"]
Unset == [tag |-> "unset"]
ClassifyGenreOutput(reason, fundamental_genre) ==
    [tag |-> "ClassifyGenreOutput", reason |-> reason,
     fundamental_genre |-> fundamental_genre]
StrValue(s) == [tag |-> "str", s |-> s]

\* a store that adds an entry even when the key is there already
dict_append(d, k, v) == Append(d, [k |-> k, v |-> v])

\* classifed[k] = v on a dict kept in insertion order
dict_set(d, k, v) ==
    IF \E j \in 1..Len(d) : d[j].k = k
    THEN [j \in 1..Len(d) |-> IF d[j].k = k THEN [k |-> k, v |-> v] ELSE d[j]]
    ELSE Append(d, [k |-> k, v |-> v])

\* the user message classify_genres seeds the prompt of a genre with
task_message(fundamentals, genre) ==
    Message("user",
        <<"You are tasked with classifying sub-genres of music into their respective fundamental genres.\n\nHere is a list of the fundamental genres:\n">>
        \o json_dumps(fundamentals)
        \o <<"\n\nYou must first give your reasoning for why the sub-genre belongs to the fundamental genre.\n\nThen, you must output the exact fundamental genre that the sub-genre belongs to. Do not change case or spelling.\n\nClassify the sub-genre: ", "\"">>
        \o genre \o <<"\"">>)

(***************************************************************************)
(* State.                                                                  *)
(***************************************************************************)
VARIABLES
    caller,             \* the function that was called: "json_prompt" or "classify_genres"
    all_genres,         \* classify_genres: the list to classify
    fundamental_genres, \* classify_genres: the caller's list of fundamental genres
    cfg,                \* cfg.fundamental_genres, the module-level configuration
    i,                  \* classify_genres: 1-based position of the for loop
    classifed,          \* classify_genres: the dict being filled
    msgs,               \* prompt.msgs, the stored conversation
    max_tries,          \* json_prompt: max_tries of the current (recursive) call
    tries0,             \* max_tries of the outermost json_prompt call
    calls,              \* cli.chat calls made since the outermost json_prompt call
    sent,               \* the messages of the latest cli.chat request
    resp,               \* json_prompt: the response being handled
    output,             \* what json_prompt returned
    pc,                 \* where control is
    data_dir,           \* sync_spotify_data_to_db: the files of the data directory
    songs,              \* the rows of table songs
    plays,              \* the rows of table plays
    info,               \* the rows of table info, oldest first
    curr_hash           \* sync_spotify_data_to_db: the hash computed at line 11

\* the variables of the data directory and the database
dbvars == <<data_dir, songs, plays, info, curr_hash>>

\* the variables of the genre classifier, but for pc
llmvars ==
    <<caller, all_genres, fundamental_genres, cfg, i, classifed, msgs, max_tries,
      tries0, calls, sent, resp, output>>

vars ==
    <<caller, all_genres, fundamental_genres, cfg, i, classifed, msgs, max_tries,
      tries0, calls, sent, resp, output, pc, data_dir, songs, plays, info, curr_hash>>

\* classify_genres.py opens no database
NoDatabase ==
    /\ data_dir = <<>>
    /\ songs = <<>>
    /\ plays = <<>>
    /\ info = <<>>
    /\ curr_hash = <<>>

InitJsonPrompt ==
    /\ caller = "json_prompt"
    /\ all_genres = <<>>
    /\ fundamental_genres = <<>>
    /\ cfg \in CfgChoices
    /\ i = 1
    /\ classifed = <<>>
    /\ msgs = <<Message("user", <<"Classify the sub-genre">>)>>
    /\ max_tries \in -1..MaxBudget
    /\ tries0 = max_tries
    /\ pc = "entry"

InitClassifyGenres ==
    /\ caller = "classify_genres"
    /\ all_genres \in ItemLists
    /\ fundamental_genres \in LoopGenreLists
    /\ cfg \in LoopGenreLists
    /\ i = 1
    /\ classifed = <<>>
    /\ msgs = <<>>
    /\ max_tries = 0
    /\ tries0 = 0
    /\ pc = "loop"

Init ==
    /\ InitJsonPrompt \/ InitClassifyGenres
    /\ NoDatabase
    /\ calls = 0
    /\ sent = <<>>
    /\ resp = <<>>
    /\ output = Unset

(***************************************************************************)
(* LLMConnector.json_prompt.                                               *)
(***************************************************************************)
\* the test of line 108, wrong at 0
exhausted_below(n) == n < 0

\* the test of line 108, one try early
exhausted_early(n) == n <= 1

\* a test that also ends a budget below zero
exhausted_nonpositive(n) == n <= 0

\* the test of line 108
exhausted(n) == n = 0

\* a recursive call that takes no try off the budget
next_tries_same(n) == n

\* a recursive call that takes two tries off the budget
next_tries_two(n) == n - 2

\* max_tries of the recursive call of line 133
next_tries(n) == n - 1

\* if max_tries == 0: return None
ReturnNone ==
    /\ pc = "entry"
    /\ exhausted(max_tries)
    /\ output' = None
    /\ pc' = "returned"
    /\ UNCHANGED <<caller, all_genres, fundamental_genres, cfg, i, classifed, msgs,
                   max_tries, tries0, calls, sent, resp>>
    /\ UNCHANGED dbvars

\* build_prompt and the call of cli.chat: one request is now with the backend
Chat ==
    /\ pc = "entry"
    /\ ~exhausted(max_tries)
    /\ max_tries < 0 => calls < MaxNegCalls
    /\ sent' = build_prompt(msgs)
    /\ calls' = calls + 1
    /\ pc' = "chat"
    /\ UNCHANGED <<caller, all_genres, fundamental_genres, cfg, i, classifed, msgs,
                   max_tries, tries0, resp, output>>
    /\ UNCHANGED dbvars

\* cli.chat returns a text, which is stored as an assistant message
\* a json_prompt that stores the response after the ampersands are replaced
ChatReturnsNormalized ==
    /\ pc = "chat"
    /\ \E r \in (IF caller = "json_prompt" THEN Responses ELSE LoopResponses) :
          /\ resp' = r
          /\ msgs' = add_msg(msgs, Message("assistant", normalize(r)))
    /\ pc' = "parse"
    /\ UNCHANGED <<caller, all_genres, fundamental_genres, cfg, i, classifed,
                   max_tries, tries0, calls, sent, output>>
    /\ UNCHANGED dbvars

ChatReturns ==
    /\ pc = "chat"
    /\ \E r \in (IF caller = "json_prompt" THEN Responses ELSE LoopResponses) :
          /\ resp' = r
          /\ msgs' = add_msg(msgs, Message("assistant", r))
    /\ pc' = "parse"
    /\ UNCHANGED <<caller, all_genres, fundamental_genres, cfg, i, classifed,
                   max_tries, tries0, calls, sent, output>>
    /\ UNCHANGED dbvars

\* a connector that answers a failure of cli.chat with another try
ChatRaisesRetried ==
    /\ pc = "chat"
    /\ msgs' = add_msg(msgs, Message("user", <<"Please try again.">>))
    /\ max_tries' = max_tries - 1
    /\ pc' = "entry"
    /\ UNCHANGED <<caller, all_genres, fundamental_genres, cfg, i, classifed,
                   tries0, calls, sent, resp, output>>
    /\ UNCHANGED dbvars

\* cli.chat raises (the backend is unreachable, or its answer is malformed):
\* line 113 is outside the try block and classify_genres has no handler, so
\* the exception leaves json_prompt and classify_genres alike
ChatRaises ==
    /\ pc = "chat"
    /\ pc' = "raised"
    /\ UNCHANGED <<caller, all_genres, fundamental_genres, cfg, i, classifed, msgs,
                   max_tries, tries0, calls, sent, resp, output>>
    /\ UNCHANGED dbvars

\* the try block succeeds: return output_format
ReturnOutput ==
    /\ pc = "parse"
    /\ \E r \in {parse_response(resp, cfg)} :
          /\ r.ok
          /\ output' = ClassifyGenreOutput(r.reason, r.fundamental_genre)
    /\ pc' = "returned"
    /\ UNCHANGED <<caller, all_genres, fundamental_genres, cfg, i, classifed, msgs,
                   max_tries, tries0, calls, sent, resp>>
    /\ UNCHANGED dbvars

\* the try block raises ValueError: the correction message is stored and
\* json_prompt calls itself with max_tries - 1
\* a json_prompt that may ask again although the response was valid
RetryAnyway ==
    /\ pc = "parse"
    /\ \E r \in {parse_response(resp, cfg)} :
          msgs' = add_msg(msgs, correction(r.error))
    /\ max_tries' = next_tries(max_tries)
    /\ pc' = "entry"
    /\ UNCHANGED <<caller, all_genres, fundamental_genres, cfg, i, classifed,
                   tries0, calls, sent, resp, output>>
    /\ UNCHANGED dbvars

Retry ==
    /\ pc = "parse"
    /\ \E r \in {parse_response(resp, cfg)} :
          /\ ~r.ok
          /\ msgs' = add_msg(msgs, correction(r.error))
    /\ max_tries' = next_tries(max_tries)
    /\ pc' = "entry"
    /\ UNCHANGED <<caller, all_genres, fundamental_genres, cfg, i, classifed,
                   tries0, calls, sent, resp, output>>
    /\ UNCHANGED dbvars

(***************************************************************************)
(* classify_genres.                                                        *)
(***************************************************************************)
\* one turn of the for loop up to the call llm.json_prompt(prompt)
\* a loop that keeps one prompt for the whole batch
NextGenreCarrying ==
    /\ pc = "loop"
    /\ caller = "classify_genres"
    /\ i <= Len(all_genres)
    /\ msgs' = add_msg(msgs, task_message(fundamental_genres, all_genres[i]))
    /\ max_tries' = DefaultMaxTries
    /\ tries0' = DefaultMaxTries
    /\ calls' = 0
    /\ pc' = "entry"
    /\ UNCHANGED <<caller, all_genres, fundamental_genres, cfg, i, classifed, sent,
                   resp, output>>
    /\ UNCHANGED dbvars

NextGenre ==
    /\ pc = "loop"
    /\ caller = "classify_genres"
    /\ i <= Len(all_genres)
    /\ msgs' = <<task_message(fundamental_genres, all_genres[i])>>
    /\ max_tries' = DefaultMaxTries
    /\ tries0' = DefaultMaxTries
    /\ calls' = 0
    /\ pc' = "entry"
    /\ UNCHANGED <<caller, all_genres, fundamental_genres, cfg, i, classifed, sent,
                   resp, output>>
    /\ UNCHANGED dbvars

\* a loop that moves on from an exhausted item without writing its outcome
RecordSuccessOnly ==
    /\ pc = "returned"
    /\ caller = "classify_genres"
    /\ classifed' = IF output = None THEN classifed
                    ELSE dict_set(classifed, all_genres[i],
                                  StrValue(output.fundamental_genre))
    /\ i' = i + 1
    /\ pc' = "loop"
    /\ UNCHANGED <<caller, all_genres, fundamental_genres, cfg, msgs, max_tries,
                   tries0, calls, sent, resp, output>>
    /\ UNCHANGED dbvars

\* a loop that gives up on the batch when an item's tries are exhausted
RecordOrAbort ==
    /\ pc = "returned"
    /\ caller = "classify_genres"
    /\ IF output = None
       THEN pc' = "raised" /\ UNCHANGED <<classifed, i>>
       ELSE /\ classifed' = dict_set(classifed, all_genres[i],
                                     StrValue(output.fundamental_genre))
            /\ i' = i + 1
            /\ pc' = "loop"
    /\ UNCHANGED <<caller, all_genres, fundamental_genres, cfg, msgs, max_tries,
                   tries0, calls, sent, resp, output>>
    /\ UNCHANGED dbvars

\* the rest of the turn: the outcome goes into classifed
Record ==
    /\ pc = "returned"
    /\ caller = "classify_genres"
    /\ classifed' = dict_set(classifed, all_genres[i],
                             IF output = None THEN None
                             ELSE StrValue(output.fundamental_genre))
    /\ i' = i + 1
    /\ pc' = "loop"
    /\ UNCHANGED <<caller, all_genres, fundamental_genres, cfg, msgs, max_tries,
                   tries0, calls, sent, resp, output>>
    /\ UNCHANGED dbvars

\* return classifed
ReturnClassifed ==
    /\ pc = "loop"
    /\ caller = "classify_genres"
    /\ i > Len(all_genres)
    /\ pc' = "done"
    /\ UNCHANGED <<caller, all_genres, fundamental_genres, cfg, i, classifed, msgs,
                   max_tries, tries0, calls, sent, resp, output>>
    /\ UNCHANGED dbvars

(***************************************************************************)
(* The methods of JsonPrompt, called directly on a prompt.  pc names the   *)
(* method that returned last.                                              *)
(***************************************************************************)
\* the messages a caller may hand to add_msg and pop_add
PromptMessages ==
    {Message("user", <<"a">>), Message("assistant", <<"b">>), Message("user", <<"c">>)}

InitPrompt ==
    /\ caller = "JsonPrompt"
    /\ all_genres = <<>>
    /\ fundamental_genres = <<>>
    /\ cfg = <<>>
    /\ i = 1
    /\ classifed = <<>>
    /\ msgs = <<>>
    /\ max_tries = 0
    /\ tries0 = 0
    /\ calls = 0
    /\ sent = <<>>
    /\ resp = <<>>
    /\ output = Unset
    /\ pc = "prompt"
    /\ NoDatabase

\* prompt.add_msg(m)
AddMsg(m) ==
    /\ pc # "raised"
    /\ Len(msgs) < MaxMsgs
    /\ msgs' = add_msg(msgs, m)
    /\ pc' = "add_msg"
    /\ UNCHANGED <<caller, all_genres, fundamental_genres, cfg, i, classifed,
                   max_tries, tries0, calls, sent, resp, output>>
    /\ UNCHANGED dbvars

\* prompt.pop_last(): list.pop() raises IndexError on an empty list
PopLast ==
    /\ pc # "raised"
    /\ IF msgs = <<>>
       THEN msgs' = msgs /\ pc' = "raised"
       ELSE msgs' = pop_last(msgs) /\ pc' = "pop_last"
    /\ UNCHANGED <<caller, all_genres, fundamental_genres, cfg, i, classifed,
                   max_tries, tries0, calls, sent, resp, output>>
    /\ UNCHANGED dbvars

\* prompt.pop_add(m): the pop raises IndexError on an empty list, before
\* anything is added
PopAdd(m) ==
    /\ pc # "raised"
    /\ IF msgs = <<>>
       THEN msgs' = msgs /\ pc' = "raised"
       ELSE msgs' = pop_add(msgs, m) /\ pc' = "pop_add"
    /\ UNCHANGED <<caller, all_genres, fundamental_genres, cfg, i, classifed,
                   max_tries, tries0, calls, sent, resp, output>>
    /\ UNCHANGED dbvars

\* prompt.build_prompt(prompt.output_format)
BuildPrompt ==
    /\ pc # "raised"
    /\ sent' = build_prompt(msgs)
    /\ pc' = "build_prompt"
    /\ UNCHANGED <<caller, all_genres, fundamental_genres, cfg, i, classifed, msgs,
                   max_tries, tries0, calls, resp, output>>
    /\ UNCHANGED dbvars

NextPrompt ==
    \/ \E m \in PromptMessages : AddMsg(m)
    \/ PopLast
    \/ \E m \in PromptMessages : PopAdd(m)
    \/ BuildPrompt

SpecPrompt == InitPrompt /\ [][NextPrompt]_vars

(***************************************************************************)
(* load_data.py: sync_spotify_data_to_db on a data directory that changes  *)
(* between runs.  A text is a sequence of atoms; a directory is the        *)
(* sequence of its files in the order of their names.                      *)
(***************************************************************************)
SpotifySongSpan(ts, uri, name) ==
    [ts |-> ts, ms_played |-> 30000, spotify_track_uri |-> uri,
     master_metadata_track_name |-> name]

Uri(kind, id) == StrValue(<<"spotify", ":", kind, ":", id>>)

PlayT1 == SpotifySongSpan(1, Uri("track", "t1"), StrValue(<<"One">>))
PlayT2 == SpotifySongSpan(2, Uri("track", "t2"), StrValue(<<"Two">>))
PlayT1Again == SpotifySongSpan(3, Uri("track", "t1"), StrValue(<<"One">>))
\* a podcast episode: no track uri, no track name
PlayEpisode == SpotifySongSpan(4, None, None)
\* another uri with the last segment t1
PlayClash == SpotifySongSpan(5, Uri("local", "t1"), StrValue(<<"Uno">>))

\* a file: ok says that it reads as a JSON list of spans
File(name, ok, data) == [name |-> name, ok |-> ok, data |-> data]

DirA == <<File(<<"a", ".json">>, TRUE, <<PlayT1Again, PlayEpisode, PlayT1>>)>>
DirB == <<File(<<"a", ".json">>, TRUE, <<PlayT1>>),
          File(<<"b", ".json">>, TRUE, <<PlayT2>>)>>
\* the spans of DirA beside a file that is not loaded
DirNotes == DirA \o <<File(<<"notes", ".txt">>, FALSE, <<>>)>>
DirBroken == <<File(<<"a", ".json">>, FALSE, <<>>)>>
DirClash == <<File(<<"a", ".json">>, TRUE, <<PlayT1, PlayClash>>)>>
Directories == {<<>>, DirA, DirB, DirNotes, DirBroken, DirClash}

\* md5_dir: the digest of the names and contents of the files, in name order
md5_dir(directory) ==
    [md5 |-> [j \in 1..Len(directory) |->
                 <<directory[j].name, directory[j].ok, directory[j].data>>]]

is_json(f) == Last(f.name) = ".json"

\* json.load or SpotifySongSpan(**d) raises on one of the .json files
load_raises(dir) == \E j \in 1..Len(dir) : is_json(dir[j]) /\ ~dir[j].ok

RECURSIVE extend_all(_)
extend_all(files) ==
    IF files = <<>> THEN <<>> ELSE files[1].data \o extend_all(Tail(files))

RECURSIVE sort_by_ts(_)
\* songs.sort(key=lambda x: x.ts): stable
sort_by_ts(spans) ==
    IF spans = <<>> THEN <<>>
    ELSE Let(sort_by_ts(SubSeq(spans, 1, Len(spans) - 1)), LAMBDA done :
           Let(Last(spans), LAMBDA s :
             SelectSeq(done, LAMBDA x : x.ts <= s.ts) \o <<s>>
             \o SelectSeq(done, LAMBDA x : x.ts > s.ts)))

load_history(dir) == sort_by_ts(extend_all(SelectSeq(dir, is_json)))

valid_span(s) == s.spotify_track_uri # None /\ s.master_metadata_track_name # None

\* spotify_track_uri.split(":")[-1]
track_id_of(s) == Last(s.spotify_track_uri.s)

DBSong(s) == [track_id |-> track_id_of(s), track_name |-> s.master_metadata_track_name.s]

DBPlay(s) == [ts |-> s.ts, track_id |-> track_id_of(s), ms_played |-> s.ms_played]

filtered_spans(dir) == SelectSeq(load_history(dir), valid_span)

RECURSIVE songs_dict(_)
\* {s.spotify_track_uri: DBSong.from_spotify_song_span(s) for s in filtered_spans}
songs_dict(spans) ==
    IF spans = <<>> THEN <<>>
    ELSE dict_set(songs_dict(SubSeq(spans, 1, Len(spans) - 1)),
                  Last(spans).spotify_track_uri, DBSong(Last(spans)))

\* list(songs.values())
song_rows(dir) ==
    Let(songs_dict(filtered_spans(dir)), LAMBDA d : [j \in 1..Len(d) |-> d[j].v])

play_rows(dir) ==
    Let(filtered_spans(dir), LAMBDA f : [j \in 1..Len(f) |-> DBPlay(f[j])])

\* the INSERT into songs breaks the primary key track_id
primary_key_clash(table, rows) ==
    Let(table \o rows, LAMBDA all :
      \E a, b \in 1..Len(all) : a < b /\ all[a].track_id = all[b].track_id)

\* db_init has created the tables; no run of the sync is in progress
InitSync ==
    /\ caller = "sync_spotify_data_to_db"
    /\ all_genres = <<>>
    /\ fundamental_genres = <<>>
    /\ cfg = <<>>
    /\ i = 1
    /\ classifed = <<>>
    /\ msgs = <<>>
    /\ max_tries = 0
    /\ tries0 = 0
    /\ calls = 0
    /\ sent = <<>>
    /\ resp = <<>>
    /\ output = Unset
    /\ pc = "idle"
    /\ data_dir \in Directories
    /\ songs = <<>>
    /\ plays = <<>>
    /\ info = <<>>
    /\ curr_hash = <<>>

\* between two runs the files of the data directory are replaced
ChangeDir ==
    /\ pc = "idle"
    /\ data_dir' \in Directories \ {data_dir}
    /\ UNCHANGED <<songs, plays, info, curr_hash, pc>>
    /\ UNCHANGED llmvars

\* a run starts: curr_hash = md5_dir(data_dir)
SyncStart ==
    /\ pc = "idle"
    /\ Len(info) < MaxSyncs
    /\ curr_hash' = md5_dir(data_dir)
    /\ pc' = "check"
    /\ UNCHANGED <<data_dir, songs, plays, info>>
    /\ UNCHANGED llmvars

\* DBInfo.get: the row of info with the greatest hash_id, or None
db_hash == IF info = <<>> THEN None ELSE Last(info)

\* if db_hash is not None and curr_hash == db_hash.last_dir_hash: return
SyncReturnsEarly ==
    /\ pc = "check"
    /\ db_hash # None /\ curr_hash = db_hash.last_dir_hash
    /\ pc' = "idle"
    /\ UNCHANGED dbvars
    /\ UNCHANGED llmvars

\* db_clear_user_data(db), committed
ClearUserData ==
    /\ pc = "check"
    /\ ~(db_hash # None /\ curr_hash = db_hash.last_dir_hash)
    /\ plays' = <<>>
    /\ songs' = <<>>
    /\ pc' = "songs"
    /\ UNCHANGED <<data_dir, info, curr_hash>>
    /\ UNCHANGED llmvars

\* load_history, the filter, and DBSong.insert_many, committed; when the
\* load or the INSERT raises, the run ends and nothing more is committed
InsertSongs ==
    /\ pc = "songs"
    /\ IF load_raises(data_dir) \/ primary_key_clash(songs, song_rows(data_dir))
       THEN songs' = songs /\ pc' = "idle"
       ELSE songs' = songs \o song_rows(data_dir) /\ pc' = "plays"
    /\ UNCHANGED <<data_dir, plays, info, curr_hash>>
    /\ UNCHANGED llmvars

\* DBPlay.insert_many, committed
InsertPlays ==
    /\ pc = "plays"
    /\ plays' = plays \o play_rows(data_dir)
    /\ pc' = "info"
    /\ UNCHANGED <<data_dir, songs, info, curr_hash>>
    /\ UNCHANGED llmvars

\* DBInfo.insert(db, curr_hash), committed; the run is over
InsertInfo ==
    /\ pc = "info"
    /\ info' = Append(info, [hash_id |-> Len(info) + 1, last_dir_hash |-> curr_hash])
    /\ pc' = "idle"
    /\ UNCHANGED <<data_dir, songs, plays, curr_hash>>
    /\ UNCHANGED llmvars

\* the process is stopped between two statements of the run: what was
\* committed stays in the database
Interrupt ==
    /\ pc \in {"check", "songs", "plays", "info"}
    /\ pc' = "idle"
    /\ UNCHANGED dbvars
    /\ UNCHANGED llmvars

NextSync ==
    \/ ChangeDir
    \/ SyncStart
    \/ SyncReturnsEarly
    \/ ClearUserData
    \/ InsertSongs
    \/ InsertPlays
    \/ InsertInfo
    \/ Interrupt

SpecSync == InitSync /\ [][NextSync]_vars

Next ==
    \/ ReturnNone
    \/ Chat
    \/ ChatReturns
    \/ ChatRaises
    \/ ReturnOutput
    \/ Retry
    \/ NextGenre
    \/ Record
    \/ ReturnClassifed

Spec == Init /\ [][Next]_vars

(***************************************************************************)
(* Properties.                                                             *)
(***************************************************************************)

\* the members of the JSON object found in a response, as pydantic reads them
Parsed(text) == super_model_validate_json(re_search(normalize(text)).span)

\* the response holds a JSON object with both fields, each a string
WellFormed(text) == re_search(normalize(text)).found /\ Parsed(text).ok

\* the genre label of a well-formed response, as the response gives it
Label(text) == Parsed(text).fundamental_genre

\* no letter of the text is upper case
IsLowercase(text) == \A j \in 1..Len(text) : text[j] \notin DOMAIN UpperToLower

\* some permitted label equals the label when letter case is ignored
MatchesIgnoringCase(label, permitted) ==
    \E q \in Range(permitted) : lower(q) = lower(label)

\* no opening brace of the text has a closing brace after it
NoBracePair(text) ==
    ~\E a, b \in 1..Len(text) : a < b /\ text[a] = "{" /\ text[b] = "}"

\* every response stored since the outermost json_prompt call was rejected
AllRejected ==
    \A j \in 1..Len(msgs) :
        msgs[j].role = "assistant" => ~parse_response(msgs[j].content, cfg).ok

\* C1: json_prompt called with max_tries = 0 returns None, makes no backend
\* call and leaves the conversation as it was; so a json_prompt whose
\* outermost call has budget 0 ends with None, no call made and the one
\* initial message stored.
C1_ZeroBudgetReturnsNone ==
    /\ [][(pc = "entry" /\ max_tries = 0) =>
            (pc' = "returned" /\ output' = None /\ calls' = calls /\ msgs' = msgs
             /\ sent' = sent)]_vars
    /\ []((caller = "json_prompt" /\ tries0 = 0) =>
            (calls = 0 /\ Len(msgs) = 1 /\ sent = <<>> /\ pc \in {"entry", "returned"}))

C1_Witness ==
    caller = "json_prompt" /\ tries0 = 0 /\ pc = "returned" /\ output = None
    /\ calls = 0 /\ Len(msgs) = 1

\* C2: with budget N >= 0, when json_prompt has returned and every response
\* it got was rejected, it made exactly N backend calls (one stored response
\* each) and returned None.
C2_AllRejectedMakesNCalls ==
    (pc = "returned" /\ tries0 >= 0 /\ AllRejected) =>
        /\ output = None
        /\ calls = tries0
        /\ Cardinality({j \in 1..Len(msgs) : msgs[j].role = "assistant"}) = tries0

C2_Witness ==
    caller = "json_prompt" /\ pc = "returned" /\ tries0 = MaxBudget /\ AllRejected
    /\ calls = MaxBudget /\ output = None

\* C3: when classify_genres returns, classifed holds exactly one entry for
\* every item of all_genres and no entry for anything else.
C3_OneEntryPerItem ==
    pc = "done" =>
        /\ \A g \in Range(all_genres) :
              Cardinality({j \in 1..Len(classifed) : classifed[j].k = g}) = 1
        /\ \A j \in 1..Len(classifed) : classifed[j].k \in Range(all_genres)

C3_Witness ==
    /\ pc = "done"
    /\ Len(all_genres) = 2
    /\ all_genres[1] = all_genres[2]
    /\ Len(classifed) = 1

\* C4: when json_prompt returned None for an item, the next step of
\* classify_genres stores the item with None, leaves the other entries alone
\* and moves to the next item; and at the head of the loop classify_genres
\* can always go on.
C4_ExhaustionRecordedBatchContinues ==
    /\ [][(caller = "classify_genres" /\ pc = "returned" /\ output = None) =>
            /\ \E j \in 1..Len(classifed') :
                  classifed'[j] = [k |-> all_genres[i], v |-> None]
            /\ \A j \in 1..Len(classifed) :
                  classifed[j].k # all_genres[i] => classifed'[j] = classifed[j]
            /\ i' = i + 1
            /\ pc' = "loop"]_vars
    /\ [](pc = "loop" => ENABLED (NextGenre \/ ReturnClassifed))

C4_Witness ==
    /\ pc = "entry"
    /\ i = 2
    /\ calls = 1
    /\ classifed = <<[k |-> all_genres[1], v |-> None]>>

\* C5: when cli.chat has failed for an item of classify_genres, the item is
\* stored as failed, or classify_genres can still take the step that stores
\* it and goes on with the batch.
C5_TransportFailureRecorded ==
    (caller = "classify_genres" /\ pc = "raised") =>
        \/ \E j \in 1..Len(classifed) : classifed[j] = [k |-> all_genres[i], v |-> None]
        \/ ENABLED Next

\* C6: a step taken while a request is with the backend either stores the
\* answer as an assistant message, or is the failure of the call: then
\* nothing is stored, no try is taken off the budget, nothing is returned,
\* and json_prompt is left for good.
C6_TransportFailureNotRetried ==
    /\ [][pc = "chat" =>
            \/ /\ pc' = "parse"
               /\ Len(msgs') = Len(msgs) + 1
               /\ Last(msgs').role = "assistant"
            \/ /\ pc' = "raised"
               /\ UNCHANGED <<msgs, calls, max_tries, output, sent, classifed, i>>]_vars
    /\ [](pc = "raised" => ~ENABLED Next)

C6_Witness ==
    caller = "json_prompt" /\ pc = "raised" /\ calls = 2 /\ Len(msgs) = 3
    /\ output = Unset

\* C7: the fundamental_genre of every result json_prompt returns has no
\* upper-case letter and is one of cfg.fundamental_genres; and the response
\* blah blah {"reason": "x", "fundamental_genre": "ROCK"} trailing gives
\* reason x and fundamental_genre rock when rock is permitted.
C7_ResultLowercasePermitted ==
    /\ output.tag = "ClassifyGenreOutput" =>
          /\ IsLowercase(output.fundamental_genre)
          /\ output.fundamental_genre \in Range(cfg)
    /\ (pc = "returned" /\ resp = RespExample /\ rock \in Range(cfg)) =>
          output = ClassifyGenreOutput(<<"x">>, rock)

C7_Witness ==
    pc = "returned" /\ resp = RespExample /\ output = ClassifyGenreOutput(<<"x">>, rock)

\* C8: a well-formed response is accepted if and only if some permitted label
\* equals its label when letter case is ignored on both sides.
C8_AcceptedIffMatchesIgnoringCase ==
    /\ (pc = "entry" /\ calls > 0 /\ WellFormed(resp)) =>
          ~MatchesIgnoringCase(Label(resp), cfg)
    /\ (pc = "returned" /\ output # None) =>
          MatchesIgnoringCase(Label(resp), cfg)

\* C9 as stated: after a well-formed response whose label matches no
\* permitted label was handled, one try is gone and the correction message
\* holds the label as the response gave it.
C9_MessageHoldsLiteralValue ==
    (pc = "entry" /\ calls > 0 /\ WellFormed(resp)
     /\ ~MatchesIgnoringCase(Label(resp), cfg)) =>
        /\ Last(msgs).role = "user"
        /\ calls + max_tries = tries0
        /\ Contains(Last(msgs).content, Label(resp))

\* C9 amended: a well-formed response whose label, folded to lower case, is
\* not in cfg.fundamental_genres is rejected, takes exactly one try off the
\* budget, and adds one user message that holds the label folded to lower
\* case.
C9_MessageHoldsLoweredValue ==
    [][(pc = "parse" /\ WellFormed(resp) /\ lower(Label(resp)) \notin Range(cfg)) =>
          /\ pc' = "entry"
          /\ max_tries' = max_tries - 1
          /\ Len(msgs') = Len(msgs) + 1
          /\ SubSeq(msgs', 1, Len(msgs)) = msgs
          /\ Last(msgs').role = "user"
          /\ Contains(Last(msgs').content, lower(Label(resp)))
          /\ output' = output]_vars

C9_Witness ==
    /\ pc = "entry"
    /\ resp = RespJAZZ
    /\ cfg = <<rock, pop>>
    /\ Contains(Last(msgs).content, jazz)
    /\ ~Contains(Last(msgs).content, JAZZ)

\* C10: a response with no opening brace before a closing brace is rejected:
\* the step takes exactly one try off the budget, adds exactly one user
\* message to the conversation and makes no backend call; so every request
\* after the first ends with the rejected answer and its correction.
C10_NoBracePairConsumesOneTry ==
    /\ [][(pc = "parse" /\ NoBracePair(resp)) =>
            /\ pc' = "entry"
            /\ max_tries' = max_tries - 1
            /\ Len(msgs') = Len(msgs) + 1
            /\ SubSeq(msgs', 1, Len(msgs)) = msgs
            /\ Last(msgs').role = "user"
            /\ calls' = calls]_vars
    /\ []((pc = "chat" /\ calls >= 2) =>
            /\ Last(sent).role = "user"
            /\ sent[Len(sent) - 1].role = "assistant")

C10_Witness ==
    /\ pc = "chat"
    /\ calls = 2
    /\ resp = RespBackwards
    /\ Len(sent) = 4
    /\ Last(sent).content = correction(<<"No JSON found in response.">>).content


\* C11: when k attempts have been made and rejected, the conversation holds
\* 1 + 2k messages: the initial user message, then k pairs of an assistant
\* message and a user (correction) message; and no step of json_prompt
\* removes or alters a message already stored.
C11_AppendOnlyLength ==
    /\ [](pc = "entry" =>
            /\ calls = tries0 - max_tries
            /\ Len(msgs) = 1 + 2 * calls
            /\ msgs[1].role = "user"
            /\ \A k \in 1..calls :
                  msgs[2 * k].role = "assistant" /\ msgs[2 * k + 1].role = "user")
    /\ [][pc # "loop" =>
            (Len(msgs') >= Len(msgs) /\ SubSeq(msgs', 1, Len(msgs)) = msgs)]_vars

C11_Witness ==
    caller = "json_prompt" /\ pc = "entry" /\ max_tries = 0 /\ calls = 3
    /\ Len(msgs) = 7


\* the steps of a run in which the backend answers every request with a text
AnsweredNext ==
    \/ ReturnNone
    \/ Chat
    \/ ChatReturns
    \/ ReturnOutput
    \/ Retry
    \/ NextGenre
    \/ Record
    \/ ReturnClassifed

\* a bound on the steps classify_genres can still take: the items not yet
\* recorded, each worth more than the steps of its 20 tries, plus the steps
\* left in the current call of json_prompt
StepsLeft ==
    (Len(all_genres) + 1 - i) * (3 * DefaultMaxTries + 5)
    + (CASE pc = "loop" -> 3 * DefaultMaxTries + 4
         [] pc = "entry" -> 3 * max_tries + 3
         [] pc = "chat" -> 3 * max_tries + 2
         [] pc = "parse" -> 3 * max_tries + 1
         [] OTHER -> 0)

\* C12: classify_genres terminates when the backend answers every request:
\* every step lowers StepsLeft, which is never negative, and until
\* classify_genres has returned (or cli.chat has raised) a step is possible;
\* the for loop advances by one item per recorded outcome, and when
\* classify_genres returns every position of all_genres has had its outcome
\* recorded.
C12_LoopTerminates ==
    /\ [][caller = "classify_genres" => StepsLeft' < StepsLeft]_vars
    /\ [](caller = "classify_genres" => StepsLeft >= 0)
    /\ []((caller = "classify_genres" /\ pc \notin {"done", "raised"}) =>
            ENABLED AnsweredNext)
    /\ [][i' # i => (i' = i + 1 /\ pc = "returned" /\ Len(classifed') >= Len(classifed))]_vars
    /\ [](pc = "done" =>
            /\ i = Len(all_genres) + 1
            /\ \A j \in 1..Len(all_genres) :
                  \E e \in 1..Len(classifed) : classifed[e].k = all_genres[j])

C12_Witness ==
    /\ pc = "done"
    /\ Len(all_genres) = 2
    /\ Len(classifed) = 2
    /\ classifed[1].v = None
    /\ classifed[2].v # None


\* C13: build_prompt returns the system message followed by the stored
\* conversation and leaves the stored conversation as it was; no stored
\* message has the role system; and within one call of json_prompt each
\* request has the request before it as a prefix.
C13_RenderPrependsSystem ==
    /\ [](\A j \in 1..Len(msgs) : msgs[j].role # "system")
    /\ [](pc = "chat" =>
            /\ Len(sent) = Len(msgs) + 1
            /\ sent[1].role = "system"
            /\ SubSeq(sent, 2, Len(sent)) = msgs)
    /\ [][(pc = "entry" /\ pc' = "chat") => msgs' = msgs]_vars
    /\ [][(sent' # sent /\ calls >= 1) =>
            (Len(sent') > Len(sent) /\ SubSeq(sent', 1, Len(sent)) = sent)]_vars

C13_Witness ==
    /\ pc = "chat"
    /\ calls = 2
    /\ Len(sent) = 4
    /\ sent[1].role = "system"
    /\ Len(msgs) = 3


\* C14: pop_add on a conversation that is not empty leaves its length and
\* every message but the last as they were, and the last message is the
\* message given.
C14_PopAddReplacesLast ==
    [][\A m \in PromptMessages :
          (PopAdd(m) /\ msgs # <<>>) =>
              /\ pc' = "pop_add"
              /\ Len(msgs') = Len(msgs)
              /\ SubSeq(msgs', 1, Len(msgs) - 1) = SubSeq(msgs, 1, Len(msgs) - 1)
              /\ Last(msgs') = m]_vars

C14_Witness ==
    /\ pc = "pop_add"
    /\ Len(msgs) = 2
    /\ msgs[1] = Message("user", <<"a">>)
    /\ msgs[2] = Message("user", <<"c">>)


\* the place of the first occurrence of item g in all_genres
FirstAt(g) == CHOOSE j \in 1..Len(all_genres) :
                 all_genres[j] = g /\ \A h \in 1..(j - 1) : all_genres[h] # g

\* C15: a request is issued only when none is in flight and nothing else
\* happens until it is answered; items are taken in input order, one place at
\* a time, and the mapping keeps that order; and while item i is being
\* worked on (so at each of its requests) the outcome of every earlier item
\* is in the mapping, and only those.
C15_StrictlySequential ==
    /\ [][pc' = "chat" => (pc = "entry" /\ calls' = calls + 1)]_vars
    /\ [][pc = "chat" => (pc' \in {"parse", "raised"} /\ calls' = calls /\ sent' = sent
                           /\ i' = i /\ classifed' = classifed)]_vars
    /\ [][i' # i => i' = i + 1]_vars
    /\ []((caller = "classify_genres" /\ pc \in {"entry", "chat", "parse", "returned"}) =>
            /\ i \in 1..Len(all_genres)
            /\ msgs[1] = task_message(fundamental_genres, all_genres[i])
            /\ pc = "chat" => sent[2] = task_message(fundamental_genres, all_genres[i])
            /\ {classifed[e].k : e \in 1..Len(classifed)}
                  = {all_genres[j] : j \in 1..(i - 1)}
            /\ \A e \in 1..Len(classifed) :
                  classifed[e].v = None \/ classifed[e].v \in {StrValue(g) : g \in Range(cfg)}
            /\ \A e1, e2 \in 1..Len(classifed) :
                  e1 < e2 => FirstAt(classifed[e1].k) < FirstAt(classifed[e2].k))

C15_Witness ==
    /\ caller = "classify_genres"
    /\ pc = "chat"
    /\ i = 2
    /\ calls = 1
    /\ all_genres[1] # all_genres[2]
    /\ classifed = <<[k |-> all_genres[1], v |-> None]>>
    /\ sent[2] = task_message(fundamental_genres, all_genres[2])


\* C16: the first request json_prompt makes for an item of classify_genres
\* is the system message followed by one user message, the task for that
\* item, whatever was stored for the items before it.
C16_FirstRequestIsFresh ==
    (caller = "classify_genres" /\ pc = "chat" /\ calls = 1) =>
        /\ Len(sent) = 2
        /\ sent[1].role = "system"
        /\ sent[2] = task_message(fundamental_genres, all_genres[i])
        /\ sent[2].role = "user"
        /\ \A j \in 1..Len(sent) : sent[j].role # "assistant"

\* the second item's first request, after the first item used up its tries
C16_Witness ==
    /\ caller = "classify_genres"
    /\ pc = "chat"
    /\ calls = 1
    /\ i = 2
    /\ classifed = <<[k |-> all_genres[1], v |-> None]>>
    /\ Len(sent) = 2


\* C17: when cli.chat returns, the response is appended as it came, as an
\* assistant message, before anything is parsed; it is the last message when
\* json_prompt returns an output, and after a rejection it is followed by the
\* correction, in the conversation and in the next request.
C17_RawResponseStored ==
    /\ [][(pc = "chat" /\ pc' = "parse") =>
            msgs' = Append(msgs, Message("assistant", resp'))]_vars
    /\ []((pc = "parse" \/ (pc = "returned" /\ calls > 0 /\ output # None)) =>
            Last(msgs) = Message("assistant", resp))
    /\ []((pc = "entry" /\ calls > 0) =>
            /\ msgs[Len(msgs) - 1] = Message("assistant", resp)
            /\ Last(msgs) = correction(parse_response(resp, cfg).error))
    /\ []((pc = "chat" /\ calls >= 2) =>
            /\ sent[Len(sent) - 1] = Message("assistant", resp)
            /\ Last(sent) = correction(parse_response(resp, cfg).error))

\* the second request, after a rejected response that normalization changes
C17_Witness ==
    /\ pc = "chat"
    /\ calls = 2
    /\ resp = RespEscaped
    /\ normalize(resp) # resp
    /\ sent[3] = Message("assistant", RespEscaped)
    /\ sent[4].role = "user"


\* C18: the text left by the replace loop holds no backslash-ampersand, the
\* loop changes nothing on a text it has already cleaned, \&\&text\& becomes
\* &&text&, and the braces are searched and the JSON is read in the cleaned
\* text: a response whose label is r\\&b is accepted as r&b when r&b is
\* permitted.
C18_NormalizeCleansAmpersands ==
    /\ [](/\ ~Contains(normalize(resp), <<"\\", "&">>)
          /\ normalize(normalize(resp)) = normalize(resp)
          /\ ~Contains(resp, <<"\\", "&">>) => normalize(resp) = resp)
    /\ [](resp = RespAmpersands =>
            /\ Contains(resp, <<"\\", "&", "\\", "&", "text", "\\", "&">>)
            /\ normalize(resp) = GenreJson(<<"&", "&", "text", "&">>, rock))
    /\ [][(pc = "parse" /\ resp = RespAmpersands /\ rock \in Range(cfg)) =>
            (pc' = "returned" /\ output'.reason = <<"&", "&", "text", "&">>)]_vars
    /\ [][(pc = "parse" /\ resp = RespEscaped /\ rnb \in Range(cfg)) =>
            (pc' = "returned" /\ output'.fundamental_genre = rnb)]_vars

C18_Witness ==
    /\ pc = "returned"
    /\ calls = 2
    /\ resp = RespEscaped
    /\ output # None
    /\ output.fundamental_genre = rnb
    /\ msgs[2] = Message("assistant", RespAmpersands)


\* the span of text from place a to place b is the first opening brace up
\* to the first closing brace after it
FirstBracePair(text, a, b) ==
    /\ a \in 1..Len(text) /\ b \in (a + 1)..Len(text)
    /\ text[a] = "{" /\ text[b] = "}"
    /\ \A j \in 1..(a - 1) : text[j] # "{"
    /\ \A j \in (a + 1)..(b - 1) : text[j] # "}"

\* C19: the search finds nothing exactly when no opening brace is followed
\* by a closing one, and otherwise gives the text from the first opening
\* brace to the next closing brace; a response whose reason holds a closing
\* brace is cut there, fails to read as JSON and is retried, also when its
\* label is permitted.
C19_SpanIsFirstBraceToNextBrace ==
    /\ [](\A t \in {normalize(resp)} : \A m \in {re_search(t)} :
            /\ m.found <=> ~NoBracePair(t)
            /\ m.found => \E a, b \in 1..Len(t) :
                             FirstBracePair(t, a, b) /\ m.span = SubSeq(t, a, b)
            /\ pc = "parse" =>
                  (parse_response(resp, cfg).error = <<"No JSON found in response.">>
                     <=> ~m.found))
    /\ [](resp = RespBraceInString =>
            /\ re_search(normalize(resp)).span
                 = <<"{">> \o Str(<<"reason">>) \o <<":", " ", "\"", "{", "G", "}">>
            /\ ~super_model_validate_json(re_search(normalize(resp)).span).ok
            /\ super_model_validate_json(resp).ok)
    /\ [][(pc = "parse" /\ resp = RespBraceInString) =>
            /\ pc' = "entry"
            /\ max_tries' = max_tries - 1
            /\ msgs' = Append(msgs, correction(ValidationErrorText))
            /\ output' = output]_vars

\* the request that follows the cut response, its label permitted
C19_Witness ==
    /\ pc = "chat"
    /\ calls = 2
    /\ resp = RespBraceInString
    /\ rock \in Range(cfg)
    /\ Last(sent) = correction(ValidationErrorText)


\* C20: in classify_genres a response is accepted exactly when its lowercased
\* label is in the fundamental_genres list the caller passed, the list the
\* task message shows.
C20_ValidatedAgainstCallerList ==
    caller = "classify_genres" =>
        /\ pc \in {"entry", "chat", "parse", "returned"} =>
              msgs[1] = task_message(fundamental_genres, all_genres[i])
        /\ (pc = "returned" /\ calls > 0 /\ output # None) =>
              lower(Label(resp)) \in Range(fundamental_genres)
        /\ (pc = "entry" /\ calls > 0 /\ WellFormed(resp)) =>
              lower(Label(resp)) \notin Range(fundamental_genres)


\* the k-th response of the current call of json_prompt, as stored
Response(k) == msgs[2 * k].content

Valid(text) == parse_response(text, cfg).ok

\* C21: with a budget N >= 0, json_prompt never makes more than N calls;
\* when it returns an output, that is the result of the last response, which
\* is valid and the first valid one, so the calls made are the index of the
\* first valid response; when it returns None, it made N calls and none of
\* the N responses was valid; and nothing is asked after it has returned.
C21_FirstValidWithinBudget ==
    /\ [](tries0 >= 0 => calls <= tries0)
    /\ []((pc = "returned" /\ tries0 >= 0) =>
            /\ \A k \in 1..(calls - 1) : ~Valid(Response(k))
            /\ IF output = None
               THEN calls = tries0 /\ \A k \in 1..calls : ~Valid(Response(k))
               ELSE /\ calls \in 1..tries0
                    /\ Response(calls) = resp
                    /\ Valid(resp)
                    /\ \E r \in {parse_response(resp, cfg)} :
                          output = ClassifyGenreOutput(r.reason, r.fundamental_genre))
    /\ [][pc = "returned" => (pc' # "chat" /\ sent' = sent)]_vars

\* the last try of a budget of three is the first valid response
C21_Witness ==
    /\ caller = "json_prompt"
    /\ pc = "returned"
    /\ tries0 = 3
    /\ calls = 3
    /\ output # None
    /\ Response(1) # Response(2)

\* C22: with a negative budget max_tries stays negative, json_prompt never
\* returns None, at entry it does not return and goes on to the next
\* request, the conversation has two more messages for each rejected
\* response, and it returns only the result of a valid response.
C22_NegativeBudgetNeverExhausts ==
    /\ [](tries0 < 0 =>
            /\ max_tries = tries0 - (IF pc = "entry" THEN calls ELSE calls - 1)
            /\ max_tries < 0
            /\ pc = "entry" =>
                  /\ ~ENABLED ReturnNone
                  /\ calls < MaxNegCalls => ENABLED Chat
                  /\ Len(msgs) = 1 + 2 * calls
            /\ pc = "returned" => (output # None /\ Valid(resp)))
    /\ [][(tries0 < 0 /\ pc = "parse" /\ ~Valid(resp)) =>
            (pc' = "entry" /\ max_tries' = max_tries - 1 /\ Len(msgs') = Len(msgs) + 1)]_vars

\* two rejected responses into a budget of -1
C22_Witness ==
    /\ tries0 = -1
    /\ pc = "entry"
    /\ calls = 2
    /\ max_tries = -3
    /\ Len(msgs) = 5


\* C23: between runs of sync_spotify_data_to_db, whenever the newest hash in
\* table info is the hash of the data directory, songs and plays hold the
\* rows of the directory's valid spans.
C23_HashMatchMeansSynced ==
    (caller = "sync_spotify_data_to_db" /\ pc = "idle" /\ db_hash # None
       /\ db_hash.last_dir_hash = md5_dir(data_dir)) =>
        /\ songs = song_rows(data_dir)
        /\ plays = play_rows(data_dir)

====
